---------------------------- MODULE Spec2Model ----------------------------
(***************************************************************************)
(* Model of the DWT/DCT watermark codec (backend/core/wm_dwt_dct.py) and   *)
(* of the request handlers that drive it (backend/app.py).                 *)
(*                                                                         *)
(* Representation.  A frame is represented by its geometry (h, w) and by   *)
(* its transform surface for the block size in use: the row-major list of  *)
(* the blocks of the padded approximation subband, each block by the two   *)
(* DCT coefficients the codec compares, A = dct[0,1] and B = dct[1,0], and *)
(* by the sum of the magnitudes of its other coefficients.  Coefficients   *)
(* are fixed-point numbers in units of 1e-6.  The pixel pipeline between   *)
(* two calls (idct, idwt, clip to uint8, colour conversion and back) is    *)
(* not modelled: a block read back holds the coefficients written.         *)
(*                                                                         *)
(* Byte strings are sequences of naturals in 0..255, bit strings are       *)
(* sequences over {0,1}, most significant bit first.                       *)
(***************************************************************************)
EXTENDS Integers, Sequences, FiniteSets, TLC

(***************************************************************************)
(* Program constants                                                       *)
(***************************************************************************)
DEFAULT_BLOCK_SIZE == 8
MAX_MESSAGE_BYTES == 4096
PAYLOAD_OVERHEAD_BYTES == 8
REPLICATION_FACTOR == 3

\* Width of the big-endian length header and of the checksum, in bytes
\* (len(message).to_bytes(4, "big"), checksum.to_bytes(4, "big")).
HEADER_BYTES == 4

\* Fixed-point unit: 1.0 == Unit (so the 1e-6 added to the energy is 1).
Unit == 1000000

(***************************************************************************)
(* State                                                                   *)
(***************************************************************************)
VARIABLES
    \* -- the codec process ------------------------------------------------
    imw,          \* the optional imwatermark dependency: [available, encode_raises]
    host,         \* the frame the client holds and submits
    kept,         \* the embed call whose watermarked frame the client kept
    embed_calls,  \* how many embed calls the process has served
    resp,         \* the response of the codec call in flight, [kind |-> "none"] if none
    \* -- /embed/capacity --------------------------------------------------
    cap_shape,    \* [h, w] of the frame whose capacity is asked
    cap_prev,     \* the capacity report before the last one
    cap_last,     \* the last capacity report
    \* -- the multi-page handlers -----------------------------------------
    is_pdf,       \* media.is_pdf
    page_state,   \* per page: "running", or how its task ended
    completed,    \* the pages in the order their tasks completed
    consumed,     \* how many completions the handler has taken
    response,     \* the handler's response, [kind |-> "none"] while it runs
    \* -- one codec routine applied on its own ------------------------------
    call          \* the routine, its arguments and what it returned

vars == <<imw, host, kept, embed_calls, resp, cap_shape, cap_prev, cap_last,
          is_pdf, page_state, completed, consumed, response, call>>

codec_vars == <<imw, host, kept, embed_calls, resp>>

cap_vars == <<cap_shape, cap_prev, cap_last>>

page_vars == <<is_pdf, page_state, completed, consumed, response>>

fn_vars == <<call>>

(***************************************************************************)
(* Integer and bit helpers                                                 *)
(***************************************************************************)
Max2(a, b) == IF a >= b THEN a ELSE b

Min2(a, b) == IF a <= b THEN a ELSE b

Abs(x) == IF x < 0 THEN -x ELSE x

RECURSIVE Pow2(_)
Pow2(k) ==
    IF k = 0 THEN 1
    ELSE LET half == Pow2(k \div 2)
         IN  IF k % 2 = 0 THEN half * half ELSE 2 * half * half

\* The expansion least significant bit first.
NatToBits_lsb(v, width) ==
    [i \in 1..width |-> IF i - 1 >= 31 THEN 0 ELSE (v \div Pow2(i - 1)) % 2]

\* int.to_bytes(width, "big") followed by np.unpackbits: the width-bit
\* big-endian binary expansion of v, most significant bit first.  Every v
\* the model converts is below 2^31, so the bits of weight 2^31 and above
\* are 0 (and are not computed by division: 2^31 is not a machine integer
\* of the checker).
NatToBits(v, width) ==
    [i \in 1..width |-> IF width - i >= 31 THEN 0 ELSE (v \div Pow2(width - i)) % 2]

\* int.from_bytes(np.packbits(bits), "big"): the value of a bit string.
RECURSIVE BitsToNatRange(_, _, _)
BitsToNatRange(bits, lo, hi) ==
    IF lo > hi THEN 0
    ELSE IF lo = hi THEN bits[lo]
    ELSE LET mid == (lo + hi) \div 2
         IN  BitsToNatRange(bits, lo, mid) * Pow2(hi - mid)
                 + BitsToNatRange(bits, mid + 1, hi)

BitsToNat(bits) == BitsToNatRange(bits, 1, Len(bits))

\* int.from_bytes(bytes, "big") of a 4-byte field.  Python integers are
\* unbounded; a field of 2^30 or more (one of its two top bits set) is
\* reported as 2^30, which keeps every comparison the code makes with it
\* (against MAX_MESSAGE_BYTES and against slice ends, all far below 2^30).
U32(bits) == IF bits[1] = 1 \/ bits[2] = 1 THEN 1073741824 ELSE BitsToNat(bits)

\* np.unpackbits of a byte string.
RECURSIVE UnpackBits(_)
UnpackBits(bytes) ==
    IF bytes = <<>> THEN <<>>
    ELSE NatToBits(Head(bytes), 8) \o UnpackBits(Tail(bytes))

\* np.packbits(...).tobytes() of a bit string whose length is a multiple of 8.
PackBits(bits) ==
    [k \in 1..(Len(bits) \div 8) |-> BitsToNat(SubSeq(bits, 8 * k - 7, 8 * k))]

\* Python slice seq[lo:hi] on a 0-based sequence: clipped to the sequence,
\* never an error.
Slice(seq, lo, hi) == SubSeq(seq, lo + 1, Min2(hi, Len(seq)))

(***************************************************************************)
(* zlib.crc32 (reflected CRC-32, polynomial 0xEDB88320), computed on a     *)
(* 32-bit register held as a bit string, most significant bit first.       *)
(***************************************************************************)
CRC_POLY == <<1,1,1,0, 1,1,0,1, 1,0,1,1, 1,0,0,0, 1,0,0,0, 0,0,1,1, 0,0,1,0, 0,0,0,0>>

XorBits(x, y) == SubSeq([i \in 1..Len(x) |-> (x[i] + y[i]) % 2], 1, Len(x))

\* One step of the bitwise algorithm: reg = (reg >> 1) ^ (POLY if reg & 1).
CrcShift(reg) ==
    LET shifted == <<0>> \o SubSeq(reg, 1, 31)
    IN  IF reg[32] = 1 THEN XorBits(shifted, CRC_POLY) ELSE shifted

RECURSIVE CrcShiftN(_, _)
CrcShiftN(reg, k) ==
    IF k = 0 THEN reg
    ELSE LET shifted == CrcShift(reg)
         IN  IF Len(shifted) = 32 THEN CrcShiftN(shifted, k - 1) ELSE shifted

RECURSIVE CrcBytes(_, _)
CrcBytes(reg, bytes) ==
    IF bytes = <<>> THEN reg
    ELSE LET fed == CrcShiftN(XorBits(reg, NatToBits(Head(bytes), 32)), 8)
         IN  IF Len(fed) = 32 THEN CrcBytes(fed, Tail(bytes)) ELSE fed

\* zlib.crc32(message) & 0xFFFFFFFF, as its 32 bits, big-endian.
crc32(message) ==
    LET ones == [i \in 1..32 |-> 1]
    IN  XorBits(CrcBytes(ones, message), ones)

(***************************************************************************)
(* Payload framing                                                         *)
(***************************************************************************)
\* _build_payload: length(4B, big-endian) || message || crc32(message)(4B).
_build_payload(message) ==
    IF Len(message) > MAX_MESSAGE_BYTES
    THEN [ok |-> FALSE, err |-> "PayloadTooLarge"]
    ELSE LET length_bits == NatToBits(Len(message), 8 * HEADER_BYTES)
             bit_array == length_bits \o UnpackBits(message) \o crc32(message)
         IN  [ok |-> TRUE, message |-> message, bits |-> bit_array]


(***************************************************************************)
(* Frame geometry                                                          *)
(***************************************************************************)
\* _pad_to_even: (pad_h, pad_w) = (h % 2, w % 2), edge-replicated.
_pad_to_even(h, w) == [h |-> h + (h % 2), w |-> w + (w % 2),
                       pad_h |-> h % 2, pad_w |-> w % 2]

\* pywt.dwt2(y_even, "haar", mode="periodization"): the approximation
\* subband of an even-sized plane has half its height and width.
dwt2_shape(h, w) == [h |-> (h + 1) \div 2, w |-> (w + 1) \div 2]

\* A padding that leaves a partial block unpadded, so that the block count
\* rounds down (mutation of _pad_to_block).
_pad_to_block_none(h, w, block_size) ==
    [h |-> h, w |-> w, pad_h |-> 0, pad_w |-> 0]

\* _pad_to_block: pads each dimension up to the next multiple of block_size.
_pad_to_block(h, w, block_size) ==
    LET pad_h == (block_size - (h % block_size)) % block_size
        pad_w == (block_size - (w % block_size)) % block_size
    IN  [h |-> h + pad_h, w |-> w + pad_w, pad_h |-> pad_h, pad_w |-> pad_w]

\* The block grid that estimate_capacity, _embed_fallback and
\* _extract_with_replication all compute from the frame's shape.
BlockGrid(h, w, block_size) ==
    LET even == _pad_to_even(h, w)
        LL == dwt2_shape(even.h, even.w)
        padded == _pad_to_block(LL.h, LL.w, block_size)
        blocks_h == padded.h \div block_size
        blocks_w == padded.w \div block_size
    IN  [too_small |-> even.h < block_size \/ even.w < block_size,
         even_h |-> even.h, even_w |-> even.w,
         pad_h |-> even.pad_h, pad_w |-> even.pad_w,
         blocks_h |-> blocks_h, blocks_w |-> blocks_w,
         num_blocks |-> blocks_h * blocks_w]

(***************************************************************************)
(* Capacity estimation                                                     *)
(***************************************************************************)
\* Capacity metrics that forget the framing overhead (mutation of
\* _compute_capacity_metrics).
_compute_capacity_metrics_raw(num_blocks) ==
    LET capacity_bits == num_blocks
        per_replication ==
            [replication \in 1..REPLICATION_FACTOR |->
                Max2(0, Min2(MAX_MESSAGE_BYTES, (capacity_bits \div replication) \div 8))]
    IN  [capacity_bits |-> capacity_bits,
         max_message_bytes |-> Max2(0, Min2(MAX_MESSAGE_BYTES, capacity_bits \div 8)),
         max_message_bytes_per_replication |-> per_replication]

\* Capacity metrics without the floor at zero (mutation of
\* _compute_capacity_metrics).
_compute_capacity_metrics_unfloored(num_blocks) ==
    LET capacity_bits == num_blocks
        per_replication ==
            [replication \in 1..REPLICATION_FACTOR |->
                Min2(MAX_MESSAGE_BYTES,
                     (capacity_bits \div replication) \div 8 - PAYLOAD_OVERHEAD_BYTES)]
    IN  [capacity_bits |-> capacity_bits,
         max_message_bytes |->
             Min2(MAX_MESSAGE_BYTES, capacity_bits \div 8 - PAYLOAD_OVERHEAD_BYTES),
         max_message_bytes_per_replication |-> per_replication]

\* A report that rounds the slots and the bytes up instead of down.
_compute_capacity_metrics_ceil(num_blocks) ==
    LET capacity_bits == num_blocks
        per_replication ==
            [replication \in 1..REPLICATION_FACTOR |->
                LET slots == (capacity_bits + replication - 1) \div replication
                    slots_bytes == (slots + 7) \div 8 - PAYLOAD_OVERHEAD_BYTES
                IN  Max2(0, Min2(MAX_MESSAGE_BYTES, slots_bytes))]
    IN  [capacity_bits |-> capacity_bits,
         max_message_bytes |-> per_replication[1],
         max_message_bytes_per_replication |-> per_replication]

_compute_capacity_metrics(num_blocks) ==
    LET capacity_bits == num_blocks
        base_bytes == capacity_bits \div 8 - PAYLOAD_OVERHEAD_BYTES
        per_replication ==
            [replication \in 1..REPLICATION_FACTOR |->
                LET slots == capacity_bits \div replication
                    slots_bytes == slots \div 8 - PAYLOAD_OVERHEAD_BYTES
                IN  Max2(0, Min2(MAX_MESSAGE_BYTES, slots_bytes))]
    IN  [capacity_bits |-> capacity_bits,
         max_message_bytes |-> Max2(0, Min2(MAX_MESSAGE_BYTES, base_bytes)),
         max_message_bytes_per_replication |-> per_replication]

\* estimate_capacity on a frame of the given dtype and shape.
estimate_capacity(dtype, h, w, block_size) ==
    IF dtype # "uint8" THEN [ok |-> FALSE, err |-> "UnsupportedDtype"]
    ELSE LET grid == BlockGrid(h, w, block_size)
         IN  IF grid.too_small THEN [ok |-> FALSE, err |-> "ImageTooSmall"]
             ELSE [ok |-> TRUE,
                   metrics |-> _compute_capacity_metrics(grid.num_blocks),
                   block_size |-> block_size, width |-> w, height |-> h,
                   even_width |-> grid.even_w, even_height |-> grid.even_h,
                   pad_added |-> [h |-> grid.pad_h, w |-> grid.pad_w]]

(***************************************************************************)
(* One bit in one block                                                    *)
(***************************************************************************)
\* np.mean(np.abs(dct)) + 1e-6 over the block_size^2 coefficients.
BlockEnergy(block, block_size) ==
    (Abs(block.a) + Abs(block.b) + block.rest) \div (block_size * block_size) + 1

\* strength is in hundredths; the result is in fixed-point units.
\* margin = max(strength * 4.0, strength * 0.25 * energy, 3.0)
EmbedMargin(block, strength, block_size) ==
    Max2(Max2(strength * 4 * (Unit \div 100),
              (BlockEnergy(block, block_size) \div 400) * strength),
         3 * Unit)

\* A value given in half units of the fixed-point grid, stored on the grid:
\* dct[a_pos] = coef_a stores the result in a float32 cell, rounding it to
\* the nearest representable value (ties to even).
StoreCoef(halves) ==
    LET q == halves \div 2
    IN  IF halves % 2 = 0 \/ q % 2 = 0 THEN q ELSE q + 1

\* The coefficients moved together without the margin.
_embed_bit_in_block_nomargin(block, bit, strength, block_size) ==
    IF bit = 1
    THEN IF block.a <= block.b
         THEN LET delta == block.b - block.a
              IN  [block EXCEPT !.a = StoreCoef(2 * block.a + delta),
                                !.b = StoreCoef(2 * block.b - delta)]
         ELSE block
    ELSE IF block.a >= block.b
         THEN LET delta == block.a - block.b
              IN  [block EXCEPT !.a = StoreCoef(2 * block.a - delta),
                                !.b = StoreCoef(2 * block.b + delta)]
         ELSE block

\* coef_a +/- delta / 2.0 and coef_b -/+ delta / 2.0 are each computed and
\* stored on their own (lines 104-105, 109-110, 112-113).
_embed_bit_in_block(block, bit, strength, block_size) ==
    LET margin == EmbedMargin(block, strength, block_size)
    IN  IF bit = 1
        THEN IF block.a <= block.b
             THEN LET delta == (block.b - block.a) + margin
                  IN  [block EXCEPT !.a = StoreCoef(2 * block.a + delta),
                                    !.b = StoreCoef(2 * block.b - delta)]
             ELSE block
        ELSE IF block.a >= block.b
             THEN LET delta == (block.a - block.b) + margin
                  IN  [block EXCEPT !.a = StoreCoef(2 * block.a - delta),
                                    !.b = StoreCoef(2 * block.b + delta)]
             ELSE block

_extract_bit_from_block(block) ==
    [bit |-> IF block.a > block.b THEN 1 ELSE 0,
     margin |-> Abs(block.a - block.b)]

\* LL[y0 : y0 + block_size, x0 : x0 + block_size] with row = index // blocks_w,
\* col = index % blocks_w: the position of that block in the row-major list.
BlockPos(index, blocks_w) == (index \div blocks_w) * blocks_w + (index % blocks_w) + 1


(***************************************************************************)
(* Seeded permutation of the block indices                                 *)
(*                                                                         *)
(* np.random.default_rng(seed) builds a fresh generator from the seed on   *)
(* every call; rng.shuffle(indices) is a Fisher-Yates shuffle drawing from *)
(* it.  The PCG64 bit generator is abstracted by a small linear            *)
(* congruential generator: the state is a function of the seed alone and   *)
(* only the draws advance it.                                              *)
(***************************************************************************)
RngModulus == 65537

\* A generator that is not created per call: its seeding depends on the calls
\* served before (mutation of default_rng).
default_rng_shared(seed) == ((seed + embed_calls) * 7919 + 1) % RngModulus

\* np.random.default_rng(seed): a fresh generator, a function of the seed.
default_rng(seed) == (seed * 7919 + 1) % RngModulus

RngNext(state) == (state * 75 + 74) % RngModulus

\* np.arange(n), as an explicit array <<0, ..., n - 1>>.
Arange(n) == SubSeq([k \in 1..n |-> k - 1], 1, n)

\* One iteration of the shuffle: j = draw in [0, i]; swap x[i], x[j].
ShuffleStep(st, i) ==
    LET drawn == RngNext(st.rng)
        j == drawn % (i + 1)
    IN  [arr |-> [st.arr EXCEPT ![i + 1] = st.arr[j + 1], ![j + 1] = st.arr[i + 1]],
         rng |-> drawn]

\* Iterations lo..hi of "for i in reversed(range(1, n))", in order (the
\* t-th iteration has i = n - t).  The range is split in two halves run one
\* after the other, which keeps the evaluation shallow; the iterations and
\* their order are those of the loop.
RECURSIVE ShuffleLoop(_, _, _, _)
ShuffleLoop(st, n, lo, hi) ==
    IF lo > hi THEN st
    ELSE IF lo = hi THEN ShuffleStep(st, n - lo)
    ELSE LET mid == (lo + hi) \div 2
             first == ShuffleLoop(st, n, lo, mid)
         IN  \* (the test is always true: it has the first half evaluated
             \* before the second half starts)
             IF Len(first.arr) = n THEN ShuffleLoop(first, n, mid + 1, hi)
             ELSE first

\* indices = np.arange(num_blocks); rng.shuffle(indices)
ShuffledIndices(seed, num_blocks) ==
    ShuffleLoop([arr |-> Arange(num_blocks), rng |-> default_rng(seed)],
                num_blocks, 1, num_blocks - 1).arr

(***************************************************************************)
(* Fallback embedding                                                      *)
(***************************************************************************)
\* A selection that always asks for the full replication factor (mutation
\* of _select_replication).
_select_replication_full(bit_count, capacity) ==
    IF bit_count <= 0 THEN [ok |-> FALSE, err |-> "NoPayload"]
    ELSE [ok |-> TRUE, replication |-> REPLICATION_FACTOR]

_select_replication(bit_count, capacity) ==
    IF bit_count <= 0 THEN [ok |-> FALSE, err |-> "NoPayload"]
    ELSE LET max_replication == Max2(1, capacity \div bit_count)
         IN  [ok |-> TRUE,
              replication |-> Max2(1, Min2(REPLICATION_FACTOR, max_replication))]

\* selected = indices[:total_slots].reshape(bits.size, replication): the
\* block index at position p (1-based) of the selection and the row
\* (payload bit, 1-based) of the reshaped array it falls in.
EmbedSlot(indices, replication, p) ==
    [index |-> indices[p], group |-> (p - 1) \div replication + 1]

\* The body of the two nested loops of _embed_fallback at position p of
\* selected = indices[:total_slots]: position p belongs to group
\* (p - 1) // replication, which carries that payload bit.
EmbedStep(blocks, ctx, p) ==
    LET slot == EmbedSlot(ctx.indices, ctx.replication, p)
        pos == BlockPos(slot.index, ctx.blocks_w)
        bit == ctx.bits[slot.group]
    IN  [blocks EXCEPT
           ![pos] = _embed_bit_in_block(@, bit, ctx.strength, ctx.block_size)]

\* Positions lo..hi of the nested loops, in order.
RECURSIVE EmbedLoop(_, _, _, _)
EmbedLoop(blocks, ctx, lo, hi) ==
    IF lo > hi THEN blocks
    ELSE IF lo = hi THEN EmbedStep(blocks, ctx, lo)
    ELSE LET mid == (lo + hi) \div 2
             first == EmbedLoop(blocks, ctx, lo, mid)
         IN  \* (always true, as in ShuffleLoop)
             IF Len(first) = Len(blocks) THEN EmbedLoop(first, ctx, mid + 1, hi)
             ELSE first

\* The result carries, as "work", the transforms the call has run on the
\* frame by the time it returns or raises: cv2.cvtColor, pywt.dwt2, the
\* block DCTs, pywt.idwt2 and the conversion back.
_embed_fallback(img, payload, seed, strength, block_size) ==
    IF img.dtype # "uint8"
    THEN [ok |-> FALSE, err |-> "UnsupportedDtype", work |-> <<>>]
    ELSE
    LET grid == BlockGrid(img.h, img.w, block_size)
    IN  IF grid.too_small
        THEN [ok |-> FALSE, err |-> "ImageTooSmall", work |-> <<"cvtColor">>]
        ELSE
        LET num_blocks == grid.num_blocks
            bits == payload.bits
            sel == _select_replication(Len(bits), num_blocks)
        IN  IF ~sel.ok
            THEN [ok |-> FALSE, err |-> sel.err, work |-> <<"cvtColor", "dwt2">>]
            ELSE
            LET replication == sel.replication
                total_slots == Len(bits) * replication
            IN  IF total_slots > num_blocks
                THEN [ok |-> FALSE, err |-> "PayloadTooLargeForImage",
                      work |-> <<"cvtColor", "dwt2">>]
                ELSE
                LET indices == ShuffledIndices(seed, num_blocks)
                    clamped == Max2(5, Min2(strength, 500))
                    ctx == [indices |-> indices, bits |-> bits,
                            replication |-> replication,
                            blocks_w |-> grid.blocks_w,
                            strength |-> clamped,
                            block_size |-> block_size]
                    \* (the permutation is drawn before the loops start)
                    LL_embed == IF Len(ctx.indices) = num_blocks
                                THEN EmbedLoop(img.blocks, ctx, 1, total_slots)
                                ELSE img.blocks
                IN  [ok |-> TRUE,
                     work |-> <<"cvtColor", "dwt2", "dct", "idwt2", "cvtColor">>,
                     frame |-> [img EXCEPT !.blocks = LL_embed],
                     meta |-> [backend |-> "fallback",
                               bits_embedded |-> Len(bits),
                               capacity |-> num_blocks,
                               block_size |-> block_size,
                               replication |-> replication]]

(***************************************************************************)
(* Fallback extraction under one replication hypothesis                    *)
(***************************************************************************)
\* A reshape that fills the groups column by column.
GroupIndex_strided(indices, replication, g, k) ==
    indices[(k - 1) * (Len(indices) \div replication) + g]

\* groups = indices[:usable_length].reshape(-1, replication): the k-th block
\* index of group g (both 1-based).
GroupIndex(indices, replication, g, k) ==
    indices[(g - 1) * replication + k]

\* The votes and margins of group g (1-based) of
\* groups = indices[:usable_length].reshape(-1, replication).
GroupReads(blocks, indices, blocks_w, replication, g) ==
    [k \in 1..replication |->
        _extract_bit_from_block(
            blocks[BlockPos(GroupIndex(indices, replication, g, k), blocks_w)])]

\* Sum of f over positions lo..hi of a sequence, for f the identity
\* (mode "id"), the quotient by n ("div") or the remainder by n ("mod").
RECURSIVE SumRange(_, _, _, _, _)
SumRange(seq, mode, n, lo, hi) ==
    IF lo > hi THEN 0
    ELSE IF lo = hi
    THEN (IF mode = "id" THEN seq[lo]
          ELSE IF mode = "div" THEN seq[lo] \div n ELSE seq[lo] % n)
    ELSE LET mid == (lo + hi) \div 2
         IN  SumRange(seq, mode, n, lo, mid) + SumRange(seq, mode, n, mid + 1, hi)

\* np.mean of a non-empty list, computed without forming the full sum.
Mean(seq) ==
    SumRange(seq, "div", Len(seq), 1, Len(seq))
    + SumRange(seq, "mod", Len(seq), 1, Len(seq)) \div Len(seq)

\* A vote won by half of the blocks.
MajorityBit_half(votes, replication) ==
    LET threshold == Max2(1, replication \div 2)
    IN  IF SumRange(votes, "id", 1, 1, Len(votes)) >= threshold THEN 1 ELSE 0

\* threshold = (replication // 2) + 1; majority = int(sum(votes) >= threshold).
MajorityBit(votes, replication) ==
    LET threshold == (replication \div 2) + 1
    IN  IF SumRange(votes, "id", 1, 1, Len(votes)) >= threshold THEN 1 ELSE 0

\* The loop variables before the first group.
ExtractStart ==
    [ok |-> TRUE, broke |-> FALSE, err |-> "none", bits |-> <<>>, margins |-> <<>>,
     expected_total_bits |-> -1]

\* The loop body without its break: every group is read.
ExtractStep_nobreak(st, ctx, g) ==
    IF ~st.ok THEN st
    ELSE
    LET reads == GroupReads(ctx.blocks, ctx.indices, ctx.blocks_w, ctx.replication, g)
        votes == [k \in 1..ctx.replication |-> reads[k].bit]
        group_margins == [k \in 1..ctx.replication |-> reads[k].margin]
        bits2 == Append(st.bits, MajorityBit(votes, ctx.replication))
        margins2 == Append(st.margins, Mean(group_margins))
        parse_header == st.expected_total_bits = -1 /\ Len(bits2) >= 8 * HEADER_BYTES
        message_len == U32(SubSeq(bits2, 1, 8 * HEADER_BYTES))
    IN  IF parse_header /\ (message_len < 0 \/ message_len > MAX_MESSAGE_BYTES)
        THEN [st EXCEPT !.ok = FALSE, !.err = "CorruptHeader",
                        !.bits = bits2, !.margins = margins2]
        ELSE [st EXCEPT !.bits = bits2, !.margins = margins2,
                        !.expected_total_bits =
                            IF parse_header
                            THEN 8 * (HEADER_BYTES + message_len + HEADER_BYTES)
                            ELSE st.expected_total_bits]

\* The body of the for-loop over groups, for group g: votes, majority,
\* header check, break.  Once the loop has raised or broken, later groups
\* are not read.
ExtractStep(st, ctx, g) ==
    IF ~st.ok \/ st.broke THEN st
    ELSE
    LET reads == GroupReads(ctx.blocks, ctx.indices, ctx.blocks_w, ctx.replication, g)
        votes == [k \in 1..ctx.replication |-> reads[k].bit]
        group_margins == [k \in 1..ctx.replication |-> reads[k].margin]
        bits2 == Append(st.bits, MajorityBit(votes, ctx.replication))
        margins2 == Append(st.margins, Mean(group_margins))
        parse_header == st.expected_total_bits = -1 /\ Len(bits2) >= 8 * HEADER_BYTES
        message_len == U32(SubSeq(bits2, 1, 8 * HEADER_BYTES))
    IN  IF parse_header /\ (message_len < 0 \/ message_len > MAX_MESSAGE_BYTES)
        THEN [st EXCEPT !.ok = FALSE, !.err = "CorruptHeader",
                        !.bits = bits2, !.margins = margins2]
        ELSE
        LET expected2 == IF parse_header
                         THEN 8 * (HEADER_BYTES + message_len + HEADER_BYTES)
                         ELSE st.expected_total_bits
        IN  [st EXCEPT !.bits = bits2, !.margins = margins2,
                       !.expected_total_bits = expected2,
                       !.broke = (expected2 # -1 /\ Len(bits2) >= expected2)]

\* Groups lo..hi of the for-loop, in order.
RECURSIVE ExtractLoop(_, _, _, _)
ExtractLoop(st, ctx, lo, hi) ==
    IF lo > hi THEN st
    ELSE IF lo = hi THEN ExtractStep(st, ctx, lo)
    ELSE LET mid == (lo + hi) \div 2
             first == ExtractLoop(st, ctx, lo, mid)
         IN  IF ~first.ok \/ first.broke THEN first
             ELSE ExtractLoop(first, ctx, mid + 1, hi)

\* confidence of a result whose checksum failed:
\* 1.0 / (1.0 + math.exp(-avg_margin / 10.0)), in fixed point.  The value is
\* enclosed from below by e^x >= 1 + x + x^2/2; from x = 36.7368 on, the
\* double 1.0 + exp(-x) rounds to 1.0 and the quotient is exactly 1.0.
Sigmoid(x) ==
    IF x >= 36736800 THEN Unit
    ELSE LET xm == x \div 1000
             exp_lb == 1000 + xm + (xm * xm) \div 2000
         IN  Unit - (1000 * Unit) \div (1000 + exp_lb)

\* The byte-level parse shared by both decode paths:
\*   message_length = int.from_bytes(payload_bytes[:4], "big")
\*   message_bytes = payload_bytes[4 : 4 + message_length]
\*   checksum = int.from_bytes(payload_bytes[4 + n : 8 + n], "big")
\*   crc_ok = (zlib.crc32(message_bytes) & 0xFFFFFFFF) == checksum
ParsePayload(payload_bytes) ==
    LET message_length == U32(UnpackBits(Slice(payload_bytes, 0, HEADER_BYTES)))
        message_bytes == Slice(payload_bytes, HEADER_BYTES,
                               HEADER_BYTES + message_length)
        tail == Slice(payload_bytes, HEADER_BYTES + message_length,
                      2 * HEADER_BYTES + message_length)
        \* int.from_bytes of fewer than 4 bytes: the value of the bytes present.
        tail_bits == UnpackBits(tail)
        checksum_bits == [i \in 1..32 |->
                            IF i <= 32 - Len(tail_bits) THEN 0
                            ELSE tail_bits[i - (32 - Len(tail_bits))]]
    IN  [message_length |-> message_length,
         message_bytes |-> message_bytes,
         crc_ok |-> crc32(message_bytes) = checksum_bits]

\* What follows the for-loop: the two raises, the parse of the collected
\* bits and the metadata.  loop holds the loop variables at the loop's exit.
ExtractFinish(loop, replication) ==
    IF ~loop.ok THEN [ok |-> FALSE, err |-> loop.err]
    ELSE IF loop.expected_total_bits = -1
    THEN [ok |-> FALSE, err |-> "MissingHeader"]
    ELSE IF Len(loop.bits) < loop.expected_total_bits
    THEN [ok |-> FALSE, err |-> "InsufficientData"]
    ELSE
    LET bit_array == SubSeq(loop.bits, 1, loop.expected_total_bits)
        parsed == ParsePayload(PackBits(bit_array))
        avg_margin == Mean(loop.margins)
        confidence == IF parsed.crc_ok THEN Unit
                      ELSE Sigmoid(avg_margin \div 10)
    IN  [ok |-> TRUE,
         message |-> parsed.message_bytes,
         meta |-> [backend |-> "fallback",
                   bits_read |-> loop.expected_total_bits,
                   crc_ok |-> parsed.crc_ok,
                   confidence |-> confidence,
                   message_length |-> parsed.message_length,
                   replication |-> replication,
                   avg_margin |-> avg_margin]]

_extract_with_replication(img, seed, block_size, replication) ==
    IF img.dtype # "uint8" THEN [ok |-> FALSE, err |-> "UnsupportedDtype"]
    ELSE
    LET grid == BlockGrid(img.h, img.w, block_size)
    IN  IF grid.too_small THEN [ok |-> FALSE, err |-> "ImageTooSmall"]
        ELSE
        LET num_blocks == grid.num_blocks
            indices == ShuffledIndices(seed, num_blocks)
            usable_length == (num_blocks \div replication) * replication
        IN  \* (the permutation is drawn before the test, as in the code; its
            \* length is always num_blocks)
            IF Len(indices) = num_blocks /\ usable_length = 0
            THEN [ok |-> FALSE, err |-> "ImageTooSmall"]
            ELSE
            ExtractFinish(ExtractLoop(ExtractStart,
                                      [blocks |-> img.blocks, indices |-> indices,
                                       blocks_w |-> grid.blocks_w,
                                       replication |-> replication],
                                      1, usable_length \div replication),
                          replication)


(***************************************************************************)
(* Public API, with the optional imwatermark acceleration                  *)
(***************************************************************************)
\* WatermarkEncoder().encode(...): an external library.  Whether it raises
\* is a fixed property of the installation (imw.encode_raises); what it
\* writes is opaque to this codec and is kept as a mark on the frame.
\* decoder.decode(...) is an input of extract: it raises or returns bytes.
embed(img, message, seed, strength, block_size) ==
    LET payload == _build_payload(message)
    IN  IF ~payload.ok THEN [ok |-> FALSE, err |-> payload.err, work |-> <<>>]
        ELSE IF imw.available /\ ~imw.encode_raises
        THEN [ok |-> TRUE,
              frame |-> [img EXCEPT !.mark = payload.bits],
              meta |-> [backend |-> "imwatermark",
                        bits_embedded |-> Len(payload.bits)]]
        ELSE _embed_fallback(img, payload, seed, strength, block_size)

\* The accelerated decode attempt: the body of the try block of extract.
\* decoded = [raises, recovered].  ok = FALSE stands for an exception, which
\* the except clause swallows.
ExtractAccelerated(decoded) ==
    IF decoded.raises THEN [ok |-> FALSE, err |-> "DecoderError"]
    ELSE IF decoded.recovered = <<>> THEN [ok |-> FALSE, err |-> "NoWatermark"]
    ELSE IF Len(decoded.recovered) < 8 THEN [ok |-> FALSE, err |-> "PayloadTooSmall"]
    ELSE LET parsed == ParsePayload(decoded.recovered)
         IN  [ok |-> TRUE,
              message |-> parsed.message_bytes,
              meta |-> [backend |-> "imwatermark",
                        crc_ok |-> parsed.crc_ok,
                        message_length |-> parsed.message_length,
                        confidence |-> IF parsed.crc_ok THEN Unit ELSE 0]]

\* A retry that keeps the first error instead of the last.
ExtractRetry_first_error(img, seed, block_size, replication, last_error) ==
    LET third == _extract_with_replication(img, seed, block_size, 3)
        second == _extract_with_replication(img, seed, block_size, 2)
        first == _extract_with_replication(img, seed, block_size, 1)
    IN  IF third.ok THEN third
        ELSE IF second.ok THEN second
        ELSE IF first.ok THEN first
        ELSE third

\* for replication in range(REPLICATION_FACTOR, 0, -1): try: return ...
\* except WatermarkingError as exc: last_error = exc; continue
RECURSIVE ExtractRetry(_, _, _, _, _)
ExtractRetry(img, seed, block_size, replication, last_error) ==
    IF replication < 1
    THEN IF last_error.err # "none" THEN last_error
         ELSE [ok |-> FALSE, err |-> "Failed"]
    ELSE LET attempt == _extract_with_replication(img, seed, block_size, replication)
         IN  IF attempt.ok THEN attempt
             ELSE ExtractRetry(img, seed, block_size, replication - 1, attempt)

\* An extract whose accelerated attempt is not guarded: what the attempt
\* raises reaches the caller (mutation of extract).
extract_unguarded(img, seed, block_size, decoded) ==
    IF imw.available THEN ExtractAccelerated(decoded)
    ELSE ExtractRetry(img, seed, block_size, REPLICATION_FACTOR,
                      [ok |-> FALSE, err |-> "none"])

extract(img, seed, block_size, decoded) ==
    LET accelerated == IF imw.available THEN ExtractAccelerated(decoded)
                       ELSE [ok |-> FALSE, err |-> "Absent"]
    IN  IF accelerated.ok THEN accelerated
        ELSE ExtractRetry(img, seed, block_size, REPLICATION_FACTOR,
                          [ok |-> FALSE, err |-> "none"])

(***************************************************************************)
(* Bounds and input sets of the codec process                              *)
(***************************************************************************)
\* Embed calls served in one behaviour.
MaxEmbedCalls == 3

\* Longest message submitted, in bytes.
MaxMsgLen == 1

ByteChoices == {72}

RECURSIVE SeqsUpTo(_, _)
SeqsUpTo(S, n) ==
    IF n = 0 THEN {<<>>}
    ELSE LET shorter == SeqsUpTo(S, n - 1)
         IN  shorter \cup {Append(q, c) : q \in {t \in shorter : Len(t) = n - 1}, c \in S}

Messages == SeqsUpTo(ByteChoices, MaxMsgLen)

Seeds == {7, 11}

\* strength, in hundredths (the service accepts 0.1 .. 2.0).
Strengths == {50, 200}

\* Frame shapes <<h, w>>: with block size 8 they give no grid (too small),
\* 16, 128 and 216 blocks.
HostShapes == {<<6, 6>>, <<64, 64>>, <<127, 256>>, <<190, 287>>}

\* The blocks of the 127x256 "edges" frame with the bright side on the
\* left: the two blocks that seed 7 visits 65th and 66th
\* (BlockPos(ShuffledIndices(7, 128)[p], 16) for p = 65, 66).
EdgePositions == {79, 99}

\* The transform surface of a host frame.  "flat" is a uniform image (every
\* AC coefficient 0); "texture" varies A, B and the remaining energy from
\* block to block; "edges" has one vertical step edge of about 110 grey
\* levels through every block (A = -400 with the bright side on the right,
\* +400 with it on the left, B = 0).
HostBlock(pattern, i) ==
    IF pattern = "flat" THEN [a |-> 0, b |-> 0, rest |-> 0]
    ELSE IF pattern = "edges"
    THEN [a |-> IF i \in EdgePositions THEN 400 * Unit ELSE -400 * Unit,
          b |-> 0, rest |-> 1000 * Unit]
    ELSE [a |-> (((i * 7) % 11) - 5) * Unit,
          b |-> (((i * 3) % 7) - 3) * Unit,
          rest |-> (i % 4) * 640 * Unit]

HostFrame(shape, pattern, dtype) ==
    LET grid == BlockGrid(shape[1], shape[2], DEFAULT_BLOCK_SIZE)
    IN  [h |-> shape[1], w |-> shape[2], dtype |-> dtype,
         blocks |-> IF grid.too_small THEN <<>>
                    ELSE [i \in 1..grid.num_blocks |-> HostBlock(pattern, i)],
         mark |-> <<>>]

HostFrames ==
    {HostFrame(shape, pattern, "uint8") : shape \in HostShapes,
                                          pattern \in {"flat", "texture"}}
    \cup {HostFrame(<<127, 256>>, "flat", "float32"),
          HostFrame(<<127, 256>>, "edges", "uint8")}

\* What decoder.decode(...) of the accelerated backend may do.
DecoderOutcomes ==
    {[raises |-> TRUE, recovered |-> <<>>]}
    \cup {[raises |-> FALSE, recovered |-> r] :
            r \in {<<>>,
                   <<0, 0, 0>>,
                   <<0, 0, 0, 1, 72, 170, 5, 38, 47>>,
                   <<0, 0, 16, 1, 72, 170, 5, 38, 47>>}}

NoResp == [kind |-> "none"]

(***************************************************************************)
(* The codec process: one embed or extract call at a time                  *)
(***************************************************************************)
CodecInit ==
    /\ imw \in {[available |-> FALSE, encode_raises |-> TRUE],
                [available |-> TRUE, encode_raises |-> TRUE],
                [available |-> TRUE, encode_raises |-> FALSE]}
    /\ host \in HostFrames
    /\ kept = NoResp
    /\ embed_calls = 0
    /\ resp = NoResp

CapIdle ==
    /\ cap_shape = <<0, 0>>
    /\ cap_prev = NoResp
    /\ cap_last = NoResp

PagesIdle ==
    /\ is_pdf = FALSE
    /\ page_state = <<>>
    /\ completed = <<>>
    /\ consumed = 0
    /\ response = NoResp

FnIdle == call = NoResp

CodecIdle ==
    /\ imw = [available |-> FALSE, encode_raises |-> TRUE]
    /\ host = NoResp
    /\ kept = NoResp
    /\ embed_calls = 0
    /\ resp = NoResp

\* wm_dwt_dct.embed(host, message, seed, strength) with the default block size.
EmbedCall(message, seed, strength) ==
    /\ resp.kind = "none"
    /\ embed_calls < MaxEmbedCalls
    /\ resp' = [kind |-> "embed", message |-> message, seed |-> seed,
                strength |-> strength,
                result |-> embed(host, message, seed, strength, DEFAULT_BLOCK_SIZE)]
    /\ embed_calls' = embed_calls + 1
    /\ UNCHANGED <<imw, host, kept, cap_vars, page_vars, fn_vars>>

\* wm_dwt_dct.extract(frame, seed) on the watermarked frame the client kept.
ExtractMarked(seed, decoded) ==
    /\ resp.kind = "none"
    /\ kept.kind = "embed"
    /\ kept.result.ok
    /\ imw.available \/ decoded.raises
    /\ resp' = [kind |-> "extract", marked |-> TRUE, seed |-> seed,
                decoded |-> decoded,
                result |-> extract(kept.result.frame, seed, DEFAULT_BLOCK_SIZE,
                                   decoded)]
    /\ UNCHANGED <<imw, host, kept, embed_calls, cap_vars, page_vars, fn_vars>>

\* wm_dwt_dct.extract(host, seed) on the frame as submitted.
ExtractHost(seed, decoded) ==
    /\ resp.kind = "none"
    /\ imw.available \/ decoded.raises
    /\ resp' = [kind |-> "extract", marked |-> FALSE, seed |-> seed,
                decoded |-> decoded,
                result |-> extract(host, seed, DEFAULT_BLOCK_SIZE, decoded)]
    /\ UNCHANGED <<imw, host, kept, embed_calls, cap_vars, page_vars, fn_vars>>

\* An embed call returns and the client keeps its outcome (and with it the
\* watermarked frame) in place of the one kept before.
ReturnKeep ==
    /\ resp.kind = "embed"
    /\ kept' = resp
    /\ resp' = NoResp
    /\ UNCHANGED <<imw, host, embed_calls, cap_vars, page_vars, fn_vars>>

\* A call returns and the client keeps nothing of it.
Return ==
    /\ resp.kind # "none"
    /\ resp' = NoResp
    /\ UNCHANGED <<imw, host, kept, embed_calls, cap_vars, page_vars, fn_vars>>

Init == CodecInit /\ CapIdle /\ PagesIdle /\ FnIdle

Next ==
    \/ \E message \in Messages, seed \in Seeds, strength \in Strengths :
          EmbedCall(message, seed, strength)
    \/ \E seed \in Seeds, decoded \in DecoderOutcomes : ExtractMarked(seed, decoded)
    \/ \E seed \in Seeds, decoded \in DecoderOutcomes : ExtractHost(seed, decoded)
    \/ ReturnKeep
    \/ Return

Spec == Init /\ [][Next]_vars

(***************************************************************************)
(* Properties of the codec process                                         *)
(***************************************************************************)
\* The pending extract call went through the retry loop of the fallback
\* decoder: the accelerated attempt was absent or raised.
OnFallback == ~(imw.available /\ ExtractAccelerated(resp.decoded).ok)

\* The frame the pending extract call was given.
ExtractedFrame == IF resp.marked THEN kept.result.frame ELSE host

\* C1: round trip on the fallback backend.  When a frame watermarked by the
\* fallback embedder with a message that fits the capacity
\* (8 * len(message) + 64 <= capacity_bits) is extracted with the seed it was
\* embedded with, extract returns exactly that message with crc_ok true,
\* whichever replication embed selected.
C1_RoundTrip ==
    (/\ resp.kind = "extract"
     /\ resp.marked
     /\ kept.result.meta.backend = "fallback"
     /\ OnFallback
     /\ resp.seed = kept.seed
     /\ 8 * Len(kept.message) + 8 * PAYLOAD_OVERHEAD_BYTES
           <= estimate_capacity(host.dtype, host.h, host.w,
                                DEFAULT_BLOCK_SIZE).metrics.capacity_bits)
    => /\ resp.result.ok
       /\ resp.result.message = kept.message
       /\ resp.result.meta.crc_ok

\* C2: on the fallback path extract returns the first hypothesis, in the
\* order 3, 2, 1, whose checksum matches: a result whose checksum does not
\* match is not returned while a later hypothesis would match.
C2_FirstCrcOk ==
    (/\ resp.kind = "extract"
     /\ OnFallback
     /\ resp.result.ok
     /\ ~resp.result.meta.crc_ok)
    => \A later \in 1..(resp.result.meta.replication - 1) :
          LET attempt == _extract_with_replication(ExtractedFrame, resp.seed,
                                                   DEFAULT_BLOCK_SIZE, later)
          IN  ~(attempt.ok /\ attempt.meta.crc_ok)

\* C3: on every decode path of extract a length header outside [0, 4096]
\* raises CorruptHeader before anything is sliced: no result is returned
\* whose message was sliced with an out-of-range length.
C3_HeaderBound ==
    (resp.kind = "extract" /\ resp.result.ok)
    => resp.result.meta.message_length \in 0..MAX_MESSAGE_BYTES

\* C4: a frame watermarked by the fallback embedder with seed s and extracted
\* by the fallback decoder with a seed s' # s never yields the original
\* message: the call raises or returns a different message.
C4_WrongSeed ==
    (/\ resp.kind = "extract"
     /\ resp.marked
     /\ kept.result.meta.backend = "fallback"
     /\ OnFallback
     /\ resp.seed # kept.seed
     /\ resp.result.ok)
    => resp.result.message # kept.message

FallbackErrors ==
    {"UnsupportedDtype", "ImageTooSmall", "NoPayload", "PayloadTooLargeForImage",
     "CorruptHeader", "MissingHeader", "InsufficientData"}

\* C11: backend-selection failures are never surfaced.  When the accelerated
\* backend is absent or raises, embed and extract return exactly what the
\* fallback path returns or raises for the same arguments (backend
\* "fallback" on success); nothing the accelerated attempt raised reaches
\* the caller.
C11_FallbackResult ==
    /\ (resp.kind = "embed" /\ (~imw.available \/ imw.encode_raises))
          => /\ resp.result = _embed_fallback(host, _build_payload(resp.message),
                                              resp.seed, resp.strength,
                                              DEFAULT_BLOCK_SIZE)
             /\ resp.result.ok => resp.result.meta.backend = "fallback"
             /\ ~resp.result.ok => resp.result.err \in FallbackErrors
    /\ (resp.kind = "extract" /\ OnFallback)
          => /\ resp.result = ExtractRetry(ExtractedFrame, resp.seed,
                                           DEFAULT_BLOCK_SIZE, REPLICATION_FACTOR,
                                           [ok |-> FALSE, err |-> "none"])
             /\ resp.result.ok => resp.result.meta.backend = "fallback"
             /\ ~resp.result.ok => resp.result.err \in FallbackErrors

\* The case of C11: the library is installed, its encoder raised at embed
\* and its decoder raised at extract, and the caller got the fallback's
\* message.
C11_Witness ==
    /\ resp.kind = "extract"
    /\ resp.marked
    /\ imw.available
    /\ resp.decoded.raises
    /\ kept.result.meta.backend = "fallback"
    /\ resp.result.ok
    /\ resp.result.meta.backend = "fallback"
    /\ resp.result.message = <<72>>

\* C12: a checksum mismatch is a value, not an error.  A decode that
\* collected its bits returns the message with crc_ok false and a
\* confidence below 1.0 when the checksum differs, and with crc_ok true and
\* confidence 1.0 when it matches.
C12_MismatchIsValue ==
    (resp.kind = "extract" /\ resp.result.ok)
    => /\ resp.result.meta.crc_ok => resp.result.meta.confidence = Unit
       /\ ~resp.result.meta.crc_ok => resp.result.meta.confidence < Unit

\* C13: embed fails fast.  Every parameter or capacity error
\* (PayloadTooLarge, UnsupportedDtype, ImageTooSmall,
\* PayloadTooLargeForImage) is raised before any transform (colour
\* conversion, wavelet decomposition, block DCT) has run on the frame.
C13_FailFast ==
    (resp.kind = "embed" /\ ~resp.result.ok)
    => resp.result.work = <<>>

\* The pending embed call went through _embed_fallback on a frame that has a
\* block grid.
EmbedOnGrid ==
    /\ resp.kind = "embed"
    /\ ~imw.available \/ imw.encode_raises
    /\ host.dtype = "uint8"
    /\ ~BlockGrid(host.h, host.w, DEFAULT_BLOCK_SIZE).too_small

\* The positions, in the block list, of the first count entries of the
\* permutation of the seed.
SlotPositions(seed, grid, count) ==
    LET indices == ShuffledIndices(seed, grid.num_blocks)
    IN  [p \in 1..count |-> BlockPos(indices[p], grid.blocks_w)]

\* C14: slot allocation in embed.  With bit_count payload bits and
\* num_blocks blocks, the replication is clamp(1, 3, num_blocks // bit_count);
\* embed fails with PayloadTooLargeForImage exactly when bit_count >
\* num_blocks; otherwise it reports that replication and writes exactly
\* bit_count * replication blocks: the slots are that many distinct blocks,
\* each carries its payload bit afterwards, and no other block is changed.
C14_SlotAllocation ==
    EmbedOnGrid
    => LET grid == BlockGrid(host.h, host.w, DEFAULT_BLOCK_SIZE)
           num_blocks == grid.num_blocks
           bit_count == 8 * (Len(resp.message) + PAYLOAD_OVERHEAD_BYTES)
           replication == Max2(1, Min2(REPLICATION_FACTOR, num_blocks \div bit_count))
           slots == SlotPositions(resp.seed, grid, bit_count * replication)
           written == {slots[p] : p \in DOMAIN slots}
           bits == _build_payload(resp.message).bits
       IN  /\ ~resp.result.ok <=> bit_count > num_blocks
           /\ ~resp.result.ok => resp.result.err = "PayloadTooLargeForImage"
           /\ resp.result.ok
                 => /\ resp.result.meta.replication = replication
                    /\ resp.result.meta.bits_embedded = bit_count
                    /\ Cardinality(written) = bit_count * replication
                    /\ \A p \in DOMAIN slots :
                          _extract_bit_from_block(resp.result.frame.blocks[slots[p]]).bit
                             = bits[(p - 1) \div replication + 1]
                    /\ \A pos \in DOMAIN host.blocks :
                          pos \notin written
                             => resp.result.frame.blocks[pos] = host.blocks[pos]

\* The case of C14: a payload that fits twice but not three times.
C14_Witness ==
    /\ EmbedOnGrid
    /\ resp.result.ok
    /\ resp.result.meta.replication = 2
    /\ resp.result.meta.capacity \div resp.result.meta.bits_embedded = 2
    /\ resp.result.frame # host

(***************************************************************************)
(* The codec's routines applied on their own: one routine is called with   *)
(* arguments drawn from a bounded set, returns, and the next one is called. *)
(***************************************************************************)
MaxFrameLen == 4

FrameBytes == {0, 72, 255}

\* The messages framed: every byte string up to MaxFrameLen over FrameBytes,
\* and one of MAX_MESSAGE_BYTES + 1 bytes.
FramedMessages ==
    SeqsUpTo(FrameBytes, MaxFrameLen) \cup {[i \in 1..(MAX_MESSAGE_BYTES + 1) |-> 0]}

\* _build_payload(message), and the bits it returns parsed back as
\* _extract_with_replication parses the bits it collected:
\*   payload_bytes = np.packbits(bit_array).tobytes(), then the byte-level parse.
FramePayload(message) ==
    /\ call.kind = "none"
    /\ call' = LET payload == _build_payload(message)
               IN  [kind |-> "frame", message |-> message, payload |-> payload,
                    parsed |-> IF payload.ok THEN ParsePayload(PackBits(payload.bits))
                               ELSE NoResp]
    /\ UNCHANGED <<codec_vars, cap_vars, page_vars>>

\* The frames one decode hypothesis is run on: host frames (no grid, 16, 40,
\* 80 and 128 blocks, an unsupported dtype) and the frames _embed_fallback returns
\* for the message b"H" on 128 blocks (replication 1) and 216 blocks
\* (replication 3).
DecodeFrames ==
    {HostFrame(<<6, 6>>, "flat", "uint8"),
     HostFrame(<<64, 64>>, "texture", "uint8"),
     HostFrame(<<80, 128>>, "flat", "uint8"),
     HostFrame(<<128, 160>>, "flat", "uint8"),
     HostFrame(<<127, 256>>, "flat", "uint8"),
     HostFrame(<<127, 256>>, "texture", "uint8"),
     HostFrame(<<127, 256>>, "flat", "float32")}
    \cup {_embed_fallback(HostFrame(shape, "texture", "uint8"), _build_payload(<<72>>),
                          7, 200, DEFAULT_BLOCK_SIZE).frame :
             shape \in {<<127, 256>>, <<190, 287>>}}

\* _extract_with_replication(img, seed, DEFAULT_BLOCK_SIZE, replication) up
\* to its for-loop: the dtype and size checks, the permutation, the loop
\* variables.
DecodeStart(img, seed, replication) ==
    /\ call.kind = "none"
    /\ call' =
        LET grid == BlockGrid(img.h, img.w, DEFAULT_BLOCK_SIZE)
            usable_length == (grid.num_blocks \div replication) * replication
            early == IF img.dtype # "uint8" THEN "UnsupportedDtype"
                     ELSE IF grid.too_small \/ usable_length = 0 THEN "ImageTooSmall"
                     ELSE "none"
        IN  [kind |-> "decode", img |-> img, seed |-> seed,
             replication |-> replication,
             pc |-> IF early = "none" THEN "loop" ELSE "done",
             indices |-> IF early = "none"
                         THEN ShuffledIndices(seed, grid.num_blocks) ELSE <<>>,
             blocks_w |-> IF early = "none" THEN grid.blocks_w ELSE 0,
             groups |-> IF early = "none" THEN usable_length \div replication ELSE 0,
             read |-> 0,
             st |-> ExtractStart,
             result |-> IF early = "none" THEN NoResp
                        ELSE [ok |-> FALSE, err |-> early]]
    /\ UNCHANGED <<codec_vars, cap_vars, page_vars>>

\* One iteration of the for-loop over groups.
DecodeGroup ==
    /\ call.kind = "decode"
    /\ call.pc = "loop"
    /\ call.read < call.groups
    /\ call.st.ok /\ ~call.st.broke
    /\ call' = [call EXCEPT
                    !.st = ExtractStep(call.st,
                                       [blocks |-> call.img.blocks,
                                        indices |-> call.indices,
                                        blocks_w |-> call.blocks_w,
                                        replication |-> call.replication],
                                       call.read + 1),
                    !.read = call.read + 1]
    /\ UNCHANGED <<codec_vars, cap_vars, page_vars>>

\* The loop is left (groups exhausted, break or raise) and the routine
\* raises or builds its result.
DecodeFinish ==
    /\ call.kind = "decode"
    /\ call.pc = "loop"
    /\ call.read = call.groups \/ ~call.st.ok \/ call.st.broke
    /\ call' = [call EXCEPT !.pc = "done",
                            !.result = ExtractFinish(call.st, call.replication)]
    /\ UNCHANGED <<codec_vars, cap_vars, page_vars>>

\* The vote of one group: lines 315-317 on the votes of its blocks.
GroupVote(votes) ==
    /\ call.kind = "none"
    /\ call' = [kind |-> "vote", votes |-> votes, replication |-> Len(votes),
                majority |-> MajorityBit(votes, Len(votes))]
    /\ UNCHANGED <<codec_vars, cap_vars, page_vars>>

\* The coefficient values and remaining energies of the blocks a bit is
\* embedded in: equal and unequal A and B, on and off the even grid points,
\* and energies that make each of the three terms of the margin the largest.
CoefValues == {-5 * Unit, -1, 0, 1, 2 * Unit + 500001, 7 * Unit}

RestValues == {0, 640 * Unit, 1500 * Unit}

\* _embed_bit_in_block(block, bit, strength) followed by
\* _extract_bit_from_block on the block it returns.
EmbedBlock(block, bit, strength) ==
    /\ call.kind = "none"
    /\ call' = LET after == _embed_bit_in_block(block, bit, strength, DEFAULT_BLOCK_SIZE)
               IN  [kind |-> "block", block |-> block, bit |-> bit,
                    strength |-> strength,
                    margin |-> EmbedMargin(block, strength, DEFAULT_BLOCK_SIZE),
                    after |-> after,
                    read |-> _extract_bit_from_block(after)]
    /\ UNCHANGED <<codec_vars, cap_vars, page_vars>>

\* extract(img, seed) without the accelerated backend, up to its retry
\* loop: last_error = None.
RetryStart(img, seed) ==
    /\ call.kind = "none"
    /\ call' = [kind |-> "retry", img |-> img, seed |-> seed, pc |-> "loop",
                replication |-> REPLICATION_FACTOR,
                attempts |-> <<>>,
                last_error |-> [ok |-> FALSE, err |-> "none"],
                result |-> NoResp]
    /\ UNCHANGED <<codec_vars, cap_vars, page_vars>>

\* One iteration of the retry loop: the hypothesis is tried; its result is
\* returned, or its error is kept and the loop continues.
RetryAttempt ==
    /\ call.kind = "retry"
    /\ call.pc = "loop"
    /\ call.replication >= 1
    /\ call' =
        LET attempt == _extract_with_replication(call.img, call.seed,
                                                 DEFAULT_BLOCK_SIZE, call.replication)
            logged == Append(call.attempts,
                             [replication |-> call.replication, result |-> attempt])
        IN  IF attempt.ok
            THEN [call EXCEPT !.attempts = logged, !.pc = "done", !.result = attempt]
            ELSE [call EXCEPT !.attempts = logged, !.last_error = attempt,
                              !.replication = @ - 1]
    /\ UNCHANGED <<codec_vars, cap_vars, page_vars>>

\* The loop is exhausted: raise last_error.
RetryRaise ==
    /\ call.kind = "retry"
    /\ call.pc = "loop"
    /\ call.replication < 1
    /\ call' = [call EXCEPT !.pc = "done",
                            !.result = IF call.last_error.err # "none"
                                       THEN call.last_error
                                       ELSE [ok |-> FALSE, err |-> "Failed"]]
    /\ UNCHANGED <<codec_vars, cap_vars, page_vars>>

\* Frame shapes with 16, 40, 80, 128 and 216 blocks and the payload sizes
\* of messages of 0, 1 and 2 bytes.
SlotShapes == {<<64, 64>>, <<80, 128>>, <<128, 160>>, <<127, 256>>, <<190, 287>>}

SlotBitCounts == {64, 72, 80}

\* The slot selection of _embed_fallback (lines 217-232) for a payload of
\* bit_count bits, and the grouping of _extract_with_replication (lines
\* 288-299) for the same seed, frame shape and block size under the
\* hypothesis that equals the replication embed chose.
SlotPlan(shape, seed, bit_count) ==
    /\ call.kind = "none"
    /\ call' =
        LET num_blocks == BlockGrid(shape[1], shape[2], DEFAULT_BLOCK_SIZE).num_blocks
            sel == _select_replication(bit_count, num_blocks)
            replication == sel.replication
            total_slots == bit_count * replication
        IN  IF total_slots > num_blocks
            THEN [kind |-> "slots", ok |-> FALSE, err |-> "PayloadTooLargeForImage",
                  num_blocks |-> num_blocks, bit_count |-> bit_count,
                  replication |-> replication]
            ELSE
            LET embed_indices == ShuffledIndices(seed, num_blocks)
                extract_indices == ShuffledIndices(seed, num_blocks)
                usable_length == (num_blocks \div replication) * replication
            IN  [kind |-> "slots", ok |-> TRUE,
                 num_blocks |-> num_blocks, bit_count |-> bit_count,
                 replication |-> replication,
                 indices |-> embed_indices,
                 written |-> [p \in 1..total_slots |->
                                 EmbedSlot(embed_indices, replication, p)],
                 read |-> [g \in 1..(usable_length \div replication) |->
                              [k \in 1..replication |->
                                  GroupIndex(SubSeq(extract_indices, 1, usable_length),
                                             replication, g, k)]]]
    /\ UNCHANGED <<codec_vars, cap_vars, page_vars>>

\* Block counts of the frames whose capacity report is compared with
\* embed: every count up to MaxPlanBlocks, and counts around the sizes at
\* which the report reaches MAX_MESSAGE_BYTES for replication 1, 2 and 3.
MaxPlanBlocks == 300

PlanBlocks ==
    1..MaxPlanBlocks
    \cup {r * 8 * (MAX_MESSAGE_BYTES + PAYLOAD_OVERHEAD_BYTES) + d :
             r \in 1..REPLICATION_FACTOR, d \in {-1, 0, 24}}

\* The message lengths tried against the report's entry for a replication.
PlanLengths == {"empty", "half", "below", "at", "above"}

\* _compute_capacity_metrics(num_blocks), and what _embed_fallback decides
\* (lines 216-222) for a message of the picked length on a frame with that
\* many blocks: embed frames the message (_build_payload, 8 * (len + 8) bits
\* or PayloadTooLarge), selects the replication and raises when the slots
\* exceed the blocks.
EmbedPlan(num_blocks, replication, pick) ==
    /\ call.kind = "none"
    /\ call' =
        LET metrics == _compute_capacity_metrics(num_blocks)
            reported == metrics.max_message_bytes_per_replication[replication]
            length == IF pick = "empty" THEN 0
                      ELSE IF pick = "half" THEN reported \div 2
                      ELSE IF pick = "below" THEN Max2(0, reported - 1)
                      ELSE IF pick = "at" THEN reported
                      ELSE reported + 1
            bit_count == 8 * (HEADER_BYTES + length + HEADER_BYTES)
            sel == _select_replication(bit_count, num_blocks)
            total_slots == bit_count * sel.replication
        IN  [kind |-> "plan", num_blocks |-> num_blocks, asked |-> replication,
             length |-> length, metrics |-> metrics,
             result |-> IF length > MAX_MESSAGE_BYTES
                        THEN [ok |-> FALSE, err |-> "PayloadTooLarge"]
                        ELSE IF total_slots > num_blocks
                        THEN [ok |-> FALSE, err |-> "PayloadTooLargeForImage"]
                        ELSE [ok |-> TRUE, replication |-> sel.replication,
                              total_slots |-> total_slots]]
    /\ UNCHANGED <<codec_vars, cap_vars, page_vars>>

\* The routine called returns.
CallReturn ==
    /\ call.kind # "none"
    /\ call.kind \in {"decode", "retry"} => call.pc = "done"
    /\ call' = NoResp
    /\ UNCHANGED <<codec_vars, cap_vars, page_vars>>

InitCalls == CodecIdle /\ CapIdle /\ PagesIdle /\ FnIdle

NextCalls ==
    \/ \E message \in FramedMessages : FramePayload(message)
    \/ \E img \in DecodeFrames, seed \in Seeds, replication \in 1..REPLICATION_FACTOR :
          DecodeStart(img, seed, replication)
    \/ DecodeGroup
    \/ DecodeFinish
    \/ \E img \in DecodeFrames, seed \in Seeds : RetryStart(img, seed)
    \/ RetryAttempt
    \/ RetryRaise
    \/ \E shape \in SlotShapes, seed \in Seeds, bit_count \in SlotBitCounts :
          SlotPlan(shape, seed, bit_count)
    \/ \E num_blocks \in PlanBlocks, replication \in 1..REPLICATION_FACTOR,
          pick \in PlanLengths :
          EmbedPlan(num_blocks, replication, pick)
    \/ \E replication \in 1..REPLICATION_FACTOR :
          \E votes \in [1..replication -> {0, 1}] : GroupVote(votes)
    \/ \E a \in CoefValues, b \in CoefValues, rest \in RestValues,
          bit \in {0, 1}, strength \in Strengths :
          EmbedBlock([a |-> a, b |-> b, rest |-> rest], bit, strength)
    \/ CallReturn

SpecCalls == InitCalls /\ [][NextCalls]_vars

\* The 4-byte big-endian field of n < 2^31.
BigEndian4(n) == <<(n \div 16777216) % 256, (n \div 65536) % 256,
                   (n \div 256) % 256, n % 256>>

\* C15: a message of at most MAX_MESSAGE_BYTES bytes is framed into exactly
\* 8 * (len + 8) bits, which are, most significant bit first, the bytes of
\* length (4 bytes, big-endian) || message || crc32(message) (4 bytes,
\* big-endian); parsing these bits back as the decoder does returns the
\* message with crc_ok true.  A longer message fails with PayloadTooLarge.
C15_FramingRoundTrip ==
    call.kind = "frame" =>
        LET message == call.message
            n == Len(message)
            payload == call.payload
        IN  IF n > MAX_MESSAGE_BYTES
            THEN ~payload.ok /\ payload.err = "PayloadTooLarge"
            ELSE LET framed == BigEndian4(n) \o message \o PackBits(crc32(message))
                 IN  /\ payload.ok
                     /\ Len(payload.bits) = 8 * (n + 8)
                     /\ Len(framed) = n + 8
                     /\ \A k \in 1..(n + 8) : \A j \in 0..7 :
                            payload.bits[8 * (k - 1) + j + 1]
                                = (framed[k] \div Pow2(7 - j)) % 2
                     /\ call.parsed.message_length = n
                     /\ call.parsed.message_bytes = message
                     /\ call.parsed.crc_ok

\* A non-empty message whose bytes are not palindromes in binary was framed
\* and parsed back, with the checksum zlib gives for it (crc32(b"H") ==
\* 0xAA05262F).
C15_Witness ==
    /\ call.kind = "frame"
    /\ call.message = <<72>>
    /\ call.payload.ok
    /\ PackBits(call.payload.bits) = <<0, 0, 0, 1, 72, 170, 5, 38, 47>>
    /\ call.parsed.crc_ok

\* The vote of the k-th block of the g-th group of a decode call: the block
\* at position (g - 1) * replication + k of the permutation.
DecodeVote(g, k) ==
    LET index == call.indices[(g - 1) * call.replication + k]
        block == call.img.blocks[(index \div call.blocks_w) * call.blocks_w
                                 + (index % call.blocks_w) + 1]
    IN  IF block.a > block.b THEN 1 ELSE 0

\* C16: one decode hypothesis consumes the groups in permutation order, one
\* bit per group, never more than num_blocks \div replication of them.  Up
\* to 31 bits no length is known; from 32 bits on the length is the header
\* read (at most MAX_MESSAGE_BYTES, or the attempt has raised on the 32nd
\* bit) and expected_total_bits = 8 * (4 + length + 4), and no more than
\* expected_total_bits bits are ever collected.  At the end: on success
\* bits_read = expected_total_bits = the bits collected and len(message) =
\* the decoded length <= MAX_MESSAGE_BYTES; groups exhausted before 32 bits
\* is MissingHeader, exhausted before expected_total_bits is
\* InsufficientData.  The stepwise run ends as _extract_with_replication.
C16_HeaderDrivenTermination ==
    (call.kind = "decode" /\ (call.pc = "loop" \/ call.st.bits # <<>>
                               \/ call.result.err \notin {"UnsupportedDtype",
                                                          "ImageTooSmall"}))  =>
        LET st == call.st
            nbits == Len(st.bits)
            num_blocks == BlockGrid(call.img.h, call.img.w, DEFAULT_BLOCK_SIZE).num_blocks
            length == U32(SubSeq(st.bits, 1, 32))
        IN  /\ call.groups = num_blocks \div call.replication
            /\ call.read <= call.groups
            /\ nbits = call.read
            /\ \A g \in 1..nbits :
                   st.bits[g] = 1 <=>
                       Cardinality({k \in 1..call.replication : DecodeVote(g, k) = 1})
                           >= (call.replication \div 2) + 1
            /\ nbits < 32 => st.ok /\ st.expected_total_bits = -1
            /\ (nbits >= 32 /\ st.ok) =>
                   /\ length <= MAX_MESSAGE_BYTES
                   /\ st.expected_total_bits = 8 * (4 + length + 4)
                   /\ nbits <= st.expected_total_bits
                   /\ st.broke <=> nbits = st.expected_total_bits
            /\ ~st.ok => nbits = 32 /\ length > MAX_MESSAGE_BYTES
                          /\ st.err = "CorruptHeader"
            /\ call.pc = "done" =>
                   /\ call.result = _extract_with_replication(
                                        call.img, call.seed, DEFAULT_BLOCK_SIZE,
                                        call.replication)
                   /\ IF call.result.ok
                      THEN /\ call.result.meta.bits_read = st.expected_total_bits
                           /\ nbits = st.expected_total_bits
                           /\ call.result.meta.message_length = length
                           /\ Len(call.result.message) = length
                           /\ length <= MAX_MESSAGE_BYTES
                      ELSE IF ~st.ok THEN call.result.err = "CorruptHeader"
                      ELSE /\ call.read = call.groups
                           /\ call.result.err = IF nbits < 32 THEN "MissingHeader"
                                                 ELSE "InsufficientData"

\* A decode attempt that stopped on the header's count before the groups
\* were exhausted and returned the one-byte message.
C16_Witness ==
    /\ call.kind = "decode"
    /\ call.pc = "done"
    /\ call.result.ok
    /\ call.result.message = <<72>>
    /\ call.result.meta.bits_read = 72
    /\ call.read = 72
    /\ call.read < call.groups

\* C17: for replication 1, 2 or 3 and any votes of the blocks of a group,
\* the decoded bit is 1 exactly when at least floor(replication / 2) + 1
\* blocks vote 1; with replication 2 a 1-1 tie decodes to 0; with
\* replication 3, flipping any single block of a unanimous group leaves the
\* decoded bit unchanged.
C17_StrictMajority ==
    call.kind = "vote" =>
        LET r == call.replication
            votes == call.votes
            ones == Cardinality({k \in 1..r : votes[k] = 1})
        IN  /\ r \in {1, 2, 3}
            /\ call.majority \in {0, 1}
            /\ call.majority = 1 <=> ones >= (r \div 2) + 1
            /\ (r = 2 /\ ones = 1) => call.majority = 0
            /\ (r = 3 /\ ones \in {0, 3}) =>
                   \A k \in 1..3 :
                       MajorityBit([votes EXCEPT ![k] = 1 - votes[k]], 3)
                           = call.majority
            /\ (r = 3 /\ ones = 2) => call.majority = 1
            /\ (r = 3 /\ ones = 1) => call.majority = 0

\* A group of two blocks that disagree was decoded.
C17_Witness ==
    /\ call.kind = "vote"
    /\ call.votes = <<1, 0>>
    /\ call.majority = 0

\* The per-block rule with the equalities allowed to be off by at most tol
\* grid units: a block that does not yet carry the bit gets A and B moved
\* to a signed distance of margin, their sum kept; any other block is left
\* as it is; and the bit is read back.
BlockRule(tol) ==
    call.kind = "block" =>
        LET A == call.block.a
            B == call.block.b
            A2 == call.after.a
            B2 == call.after.b
            strength_4 == call.strength * 4 * (Unit \div 100)
        IN  /\ call.margin >= strength_4 /\ call.margin >= 3 * Unit
            /\ IF call.bit = 1 /\ A <= B
               THEN /\ Abs((A2 - B2) - call.margin) <= tol
                    /\ Abs((A2 + B2) - (A + B)) <= tol
               ELSE IF call.bit = 0 /\ A >= B
               THEN /\ Abs((B2 - A2) - call.margin) <= tol
                    /\ Abs((A2 + B2) - (A + B)) <= tol
               ELSE A2 = A /\ B2 = B
            /\ call.after.rest = call.block.rest
            /\ call.read.bit = call.bit
            /\ call.bit = 1 => A2 > B2
            /\ call.bit = 0 => A2 < B2

C19_OrderedRetry ==
    call.kind = "retry" =>
        LET n == Len(call.attempts)
        IN  /\ n <= REPLICATION_FACTOR
            /\ \A i \in 1..n : call.attempts[i].replication = REPLICATION_FACTOR + 1 - i
            /\ \A i \in 1..(n - 1) :
                   /\ ~call.attempts[i].result.ok
                   /\ call.attempts[i].result.err \in FallbackErrors
            /\ call.pc = "loop" => \A i \in 1..n : ~call.attempts[i].result.ok
            /\ call.pc = "done" =>
                   /\ n >= 1
                   /\ call.result = call.attempts[n].result
                   /\ ~call.result.ok =>
                          /\ n = REPLICATION_FACTOR
                          /\ call.attempts[n].replication = 1
                          /\ call.result.err \in FallbackErrors
                          /\ \A i \in 1..n : ~call.attempts[i].result.ok
                   /\ call.result.ok =>
                          call.result.meta.replication = call.attempts[n].replication
                   /\ call.result = extract(call.img, call.seed, DEFAULT_BLOCK_SIZE,
                                            [raises |-> TRUE, recovered |-> <<>>])

\* All three hypotheses raised, the first and the last with different
\* errors, and the call raised the last one.
C19_Witness ==
    /\ call.kind = "retry"
    /\ call.pc = "done"
    /\ Len(call.attempts) = 3
    /\ ~call.result.ok
    /\ call.attempts[1].result.err # call.attempts[3].result.err
    /\ call.result.err = call.attempts[3].result.err

\* C20: the indices embed selects are the first bit_count * replication
\* entries of a permutation of 0 .. num_blocks - 1: every index is in range
\* and no block is written twice, so no block serves two payload bits, and
\* every payload bit has exactly replication blocks.  For the same seed,
\* frame shape and block size, under the hypothesis equal to embed's
\* replication, the i-th group extract reads is the i-th group embed wrote,
\* block for block.
C20_SlotGroupsAligned ==
    (call.kind = "slots" /\ call.ok) =>
        LET n == call.num_blocks
            r == call.replication
            c == call.bit_count
            perm == call.indices
            written == call.written
        IN  /\ Len(perm) = n
            /\ {perm[p] : p \in 1..n} = 0..(n - 1)
            /\ Len(written) = c * r
            /\ c * r <= n
            /\ \A p \in 1..(c * r) :
                   /\ written[p].index = perm[p]
                   /\ written[p].index \in 0..(n - 1)
                   /\ written[p].group \in 1..c
            /\ \A p, q \in 1..(c * r) :
                   written[p].index = written[q].index => p = q
            /\ \A g \in 1..c :
                   Cardinality({p \in 1..(c * r) : written[p].group = g}) = r
            /\ Len(call.read) = n \div r
            /\ c <= Len(call.read)
            /\ \A g \in 1..c :
                   /\ {call.read[g][k] : k \in 1..r}
                          = {written[p].index : p \in {q \in 1..(c * r) : written[q].group = g}}
                   /\ \A k \in 1..r :
                          call.read[g][k] = written[(g - 1) * r + k].index

\* Slots were selected with three blocks per payload bit on a frame with
\* blocks to spare, and the permutation is not the identity.
C20_Witness ==
    /\ call.kind = "slots"
    /\ call.ok
    /\ call.replication = 3
    /\ call.bit_count * call.replication < call.num_blocks
    /\ \E p \in 1..Len(call.written) : call.written[p].index # p - 1
    /\ call.read[2] = <<call.written[4].index, call.written[5].index,
                         call.written[6].index>>

\* C21: the capacity report agrees with embed.  For every block count and
\* every replication r in 1..3 whose reported max_message_bytes_per_replication
\* is positive, a message of at most that many bytes does not fail with
\* PayloadTooLargeForImage (nor with any other error) and is embedded with a
\* replication of at least r, in no more slots than there are blocks.  The
\* entry for replication 1 equals max_message_bytes, and the entries do not
\* increase with r.
C21_ReportAgreesWithEmbed ==
    call.kind = "plan" =>
        LET per == call.metrics.max_message_bytes_per_replication
            r == call.asked
        IN  /\ DOMAIN per = 1..REPLICATION_FACTOR
            /\ per[1] = call.metrics.max_message_bytes
            /\ \A q \in 1..(REPLICATION_FACTOR - 1) : per[q] >= per[q + 1]
            /\ \A q \in 1..REPLICATION_FACTOR : per[q] \in 0..MAX_MESSAGE_BYTES
            /\ (per[r] > 0 /\ call.length <= per[r]) =>
                   /\ call.result.ok
                   /\ call.result.replication >= r
                   /\ call.result.replication <= REPLICATION_FACTOR
                   /\ call.result.total_slots <= call.num_blocks

\* The largest message the report allows for replication 3 on a frame
\* below the size limit was embedded, with replication 3; one more byte
\* would not fit three times.
C21_Witness ==
    /\ call.kind = "plan"
    /\ call.asked = 3
    /\ call.metrics.max_message_bytes_per_replication[3] \in 1..(MAX_MESSAGE_BYTES - 1)
    /\ call.length = call.metrics.max_message_bytes_per_replication[3]
    /\ call.result.ok
    /\ call.result.replication = 3
    /\ 3 * 8 * (call.length + 1 + PAYLOAD_OVERHEAD_BYTES) > call.num_blocks

(***************************************************************************)
(* The capacity process: estimate_capacity asked about one frame under     *)
(* several block sizes                                                     *)
(***************************************************************************)
\* Frame heights and widths: every small size, and two large enough for the
\* MAX_MESSAGE_BYTES cap to bind.
MaxCapDim == 33

CapDims == 1..MaxCapDim \cup {726, 1300}

\* The block sizes a request may carry (_ensure_block_size: even and > 1).
BlockSizes == {2, 4, 6, 8, 16}

CapInit ==
    /\ cap_shape \in CapDims \X CapDims
    /\ cap_prev = NoResp
    /\ cap_last = NoResp

\* estimate_capacity(frame, block_size) on the uint8 frame of shape cap_shape.
CapEstimate(block_size) ==
    /\ cap_last' = [kind |-> "capacity", block_size |-> block_size,
                    result |-> estimate_capacity("uint8", cap_shape[1], cap_shape[2],
                                                 block_size)]
    /\ cap_prev' = cap_last
    /\ UNCHANGED <<cap_shape, codec_vars, page_vars, fn_vars>>

InitCapacity == CodecIdle /\ CapInit /\ PagesIdle /\ FnIdle

NextCapacity == \E block_size \in BlockSizes : CapEstimate(block_size)

SpecCapacity == InitCapacity /\ [][NextCapacity]_vars

CapOk(report) == report.kind = "capacity" /\ report.result.ok

CeilDiv(a, b) == (a + b - 1) \div b

\* C7 as stated: whenever estimate_capacity succeeds,
\* (max_message_bytes + PAYLOAD_OVERHEAD_BYTES) * 8 <= capacity_bits and
\* max_message_bytes <= MAX_MESSAGE_BYTES.
C7_Overhead ==
    CapOk(cap_last)
    => LET m == cap_last.result.metrics
       IN  /\ (m.max_message_bytes + PAYLOAD_OVERHEAD_BYTES) * 8 <= m.capacity_bits
           /\ m.max_message_bytes <= MAX_MESSAGE_BYTES

\* C7 amended: whenever estimate_capacity succeeds, max_message_bytes <=
\* MAX_MESSAGE_BYTES; the reported size plus the framing overhead fits the
\* capacity as soon as the overhead alone fits (capacity_bits >= 64), and
\* the reported size is 0 when it does not.
C7_OverheadWhenFramed ==
    CapOk(cap_last)
    => LET m == cap_last.result.metrics
       IN  /\ m.max_message_bytes <= MAX_MESSAGE_BYTES
           /\ m.capacity_bits >= 8 * PAYLOAD_OVERHEAD_BYTES
                 => (m.max_message_bytes + PAYLOAD_OVERHEAD_BYTES) * 8 <= m.capacity_bits
           /\ m.capacity_bits < 8 * PAYLOAD_OVERHEAD_BYTES => m.max_message_bytes = 0

\* The case of C7: a report with room for a message, below the cap.
C7_Witness ==
    /\ CapOk(cap_last)
    /\ cap_last.result.metrics.max_message_bytes > 0
    /\ cap_last.result.metrics.max_message_bytes < MAX_MESSAGE_BYTES
    /\ cap_last.result.metrics.capacity_bits % 8 # 0

\* C8: estimate_capacity never reports a negative size.  max_message_bytes
\* and every entry of max_message_bytes_per_replication lie in [0, 4096];
\* they are 0 whenever capacity_bits // 8 (resp. (capacity_bits // r) // 8)
\* is at most 8; a 32x32 frame with block size 16 has one block and
\* max_message_bytes 0.
C8_NeverNegative ==
    CapOk(cap_last)
    => LET m == cap_last.result.metrics
       IN  /\ m.max_message_bytes \in 0..MAX_MESSAGE_BYTES
           /\ m.capacity_bits \div 8 <= PAYLOAD_OVERHEAD_BYTES => m.max_message_bytes = 0
           /\ \A r \in 1..REPLICATION_FACTOR :
                 /\ m.max_message_bytes_per_replication[r] \in 0..MAX_MESSAGE_BYTES
                 /\ (m.capacity_bits \div r) \div 8 <= PAYLOAD_OVERHEAD_BYTES
                       => m.max_message_bytes_per_replication[r] = 0
           /\ (cap_shape = <<32, 32>> /\ cap_last.block_size = 16)
                 => m.capacity_bits = 1 /\ m.max_message_bytes = 0

\* The case of C8: the 32x32 frame asked with block size 16.
C8_Witness ==
    /\ CapOk(cap_last)
    /\ cap_shape = <<32, 32>>
    /\ cap_last.block_size = 16
    /\ cap_last.result.metrics.capacity_bits = 1
    /\ cap_last.result.metrics.max_message_bytes = 0

\* C9: capacity_bits = ceil(ceil(H/2)/block_size) * ceil(ceil(W/2)/block_size),
\* and for one frame and two block sizes b1 < b2 on which estimate_capacity
\* succeeds, max_message_bytes(b2) <= max_message_bytes(b1).
C9_ExactMonotone ==
    /\ CapOk(cap_last)
          => cap_last.result.metrics.capacity_bits
                = CeilDiv(CeilDiv(cap_shape[1], 2), cap_last.block_size)
                  * CeilDiv(CeilDiv(cap_shape[2], 2), cap_last.block_size)
    /\ (CapOk(cap_prev) /\ CapOk(cap_last))
          => /\ cap_prev.block_size < cap_last.block_size
                   => cap_last.result.metrics.max_message_bytes
                         <= cap_prev.result.metrics.max_message_bytes
             /\ cap_last.block_size < cap_prev.block_size
                   => cap_prev.result.metrics.max_message_bytes
                         <= cap_last.result.metrics.max_message_bytes

\* The case of C9: an odd-sized frame whose subband needs padding, asked with
\* a smaller and then a larger block size, the reported size dropping.
C9_Witness ==
    /\ CapOk(cap_prev)
    /\ CapOk(cap_last)
    /\ cap_prev.block_size < cap_last.block_size
    /\ cap_last.result.metrics.max_message_bytes
          < cap_prev.result.metrics.max_message_bytes
    /\ cap_shape[1] % 2 = 1
    /\ CeilDiv(cap_shape[1], 2) % cap_last.block_size # 0

(***************************************************************************)
(* The multi-page handlers of app.py.  A request carries the frames of     *)
(* media.images (one for an image, up to MAX_PDF_PAGES for a PDF, bounded  *)
(* here by MaxPages); one task per frame runs the codec in the executor    *)
(* under _run_with_timeout and ends with a result or an exception, in any  *)
(* order.  page_state[p] is "running" or how the task of page p ended,     *)
(* completed lists the pages in the order their tasks ended, consumed      *)
(* counts the completions the handler has been woken with.                 *)
(***************************************************************************)
MaxPages == 3

\* io_utils.load_media_bytes: _load_image yields one frame and is_pdf False,
\* _load_pdf yields the pages of the document and is_pdf True.
PagesInit ==
    /\ is_pdf \in BOOLEAN
    /\ \E n \in 1..MaxPages :
          /\ is_pdf \/ n = 1
          /\ page_state = [p \in 1..n |-> "running"]
    /\ completed = <<>>
    /\ consumed = 0
    /\ response = NoResp

\* How _extract_single can end: a result, an error of the codec, or the
\* asyncio.TimeoutError of _run_with_timeout.
ExtractOutcomes == {"ok", "MissingHeader", "InsufficientData", "CorruptHeader", "Timeout"}

\* How _embed_single can end.
EmbedOutcomes == {"ok", "PayloadTooLargeForImage", "Timeout"}

\* The task of page p ends with the given outcome.  Tasks are not cancelled
\* when the handler returns: they may end after the response.
TaskEnds(p, outcome) ==
    /\ page_state[p] = "running"
    /\ page_state' = [page_state EXCEPT ![p] = outcome]
    /\ completed' = Append(completed, p)
    /\ UNCHANGED <<is_pdf, consumed, response, codec_vars, cap_vars, fn_vars>>

\* extract_endpoint, media.is_pdf: one iteration of
\* "for task in asyncio.as_completed(tasks)": the next completion is awaited;
\* a result is returned at once, an exception is swallowed (continue); when
\* the last completion raised too, the loop ends and HTTP 400 is raised.
\* (mutation of AsCompletedTake: the first exception ends the request)
AsCompletedTake_abort ==
    /\ is_pdf
    /\ response.kind = "none"
    /\ consumed < Len(completed)
    /\ LET p == completed[consumed + 1]
       IN  response' = IF page_state[p] = "ok"
                       THEN [kind |-> "result", page_index |-> p - 1]
                       ELSE [kind |-> "error", status |-> 400]
    /\ consumed' = consumed + 1
    /\ UNCHANGED <<is_pdf, page_state, completed, codec_vars, cap_vars, fn_vars>>

AsCompletedTake ==
    /\ is_pdf
    /\ response.kind = "none"
    /\ consumed < Len(completed)
    /\ LET p == completed[consumed + 1]
       IN  response' = IF page_state[p] = "ok"
                       THEN [kind |-> "result", page_index |-> p - 1]
                       ELSE IF consumed + 1 = Len(page_state)
                       THEN [kind |-> "error", status |-> 400]
                       ELSE NoResp
    /\ consumed' = consumed + 1
    /\ UNCHANGED <<is_pdf, page_state, completed, codec_vars, cap_vars, fn_vars>>

\* extract_endpoint, single image: result = await _extract_single(images[0], 0);
\* an exception of the task propagates out of the handler.
ExtractSingle ==
    /\ ~is_pdf
    /\ response.kind = "none"
    /\ consumed < Len(completed)
    /\ LET p == completed[consumed + 1]
       IN  response' = IF page_state[p] = "ok"
                       THEN [kind |-> "result", page_index |-> 0]
                       ELSE [kind |-> "raised", err |-> page_state[p]]
    /\ consumed' = consumed + 1
    /\ UNCHANGED <<is_pdf, page_state, completed, codec_vars, cap_vars, fn_vars>>

InitPages == CodecIdle /\ CapIdle /\ PagesInit /\ FnIdle

NextExtractPages ==
    \/ \E p \in DOMAIN page_state, outcome \in ExtractOutcomes : TaskEnds(p, outcome)
    \/ AsCompletedTake
    \/ ExtractSingle

SpecExtractPages == InitPages /\ [][NextExtractPages]_vars

\* The results asyncio.gather hands back when every task succeeded: one per
\* task, in the order of the tasks, whatever the order they ended in
\* (mutation: in completion order).
GatherResults_as_completed(order, n) ==
    [i \in 1..n |-> [page |-> order[i], watermarked |-> TRUE]]

GatherResults(order, n) ==
    [i \in 1..n |-> [page |-> i, watermarked |-> TRUE]]

\* embed_endpoint: results = await asyncio.gather(*tasks).  gather is woken
\* by each completion, in order: the first exception is propagated at once
\* (a WatermarkingError becomes HTTP 400, a TimeoutError is not caught and
\* fails the request); when the last task has succeeded, the handler builds
\* the response from the frames of the results (a PDF of all of them when
\* media.is_pdf, the PNG of the single frame otherwise).
GatherTake ==
    /\ response.kind = "none"
    /\ consumed < Len(completed)
    /\ LET p == completed[consumed + 1]
           n == Len(page_state)
       IN  response' =
              IF page_state[p] = "Timeout"
              THEN [kind |-> "raised", err |-> "Timeout"]
              ELSE IF page_state[p] # "ok"
              THEN [kind |-> "error", status |-> 400]
              ELSE IF consumed + 1 = n
              THEN [kind |-> "document", pdf |-> is_pdf,
                    frames |-> GatherResults(completed, n)]
              ELSE NoResp
    /\ consumed' = consumed + 1
    /\ UNCHANGED <<is_pdf, page_state, completed, codec_vars, cap_vars, fn_vars>>

NextEmbedPages ==
    \/ \E p \in DOMAIN page_state, outcome \in EmbedOutcomes : TaskEnds(p, outcome)
    \/ GatherTake

SpecEmbedPages == InitPages /\ [][NextEmbedPages]_vars

(***************************************************************************)
(* Properties of the multi-page handlers                                   *)
(***************************************************************************)
Failed(p) == page_state[p] \notin {"running", "ok"}

\* C5: multi-frame extract.  Under every completion order the response is
\* the result of the first page to complete whose extraction did not fail:
\* pages that raised before it do not prevent it, pages completing after it
\* are not surfaced, and the aggregate failure (HTTP 400) is the response if
\* and only if every page failed.
C5_FirstSuccessWins ==
    is_pdf
    => /\ response.kind \in {"none", "result", "error"}
       /\ response.kind = "result"
             => \E k \in 1..Len(completed) :
                   /\ completed[k] = response.page_index + 1
                   /\ page_state[completed[k]] = "ok"
                   /\ \A j \in 1..(k - 1) : Failed(completed[j])
       /\ response.kind = "error"
             => \A p \in DOMAIN page_state : Failed(p)
       /\ (consumed = Len(page_state) /\ \A p \in DOMAIN page_state : Failed(p))
             => response.kind = "error"

\* The case of C5: the first completion timed out, a later page won, and
\* another page succeeded after the winner.
C5_Witness ==
    /\ is_pdf
    /\ response.kind = "result"
    /\ Len(completed) = Len(page_state)
    /\ page_state[completed[1]] = "Timeout"
    /\ completed[2] = response.page_index + 1
    /\ response.page_index # 0
    /\ \E p \in DOMAIN page_state :
          p # response.page_index + 1 /\ page_state[p] = "ok"

\* C6: multi-frame embed is all-or-nothing.  Under every interleaving of the
\* page tasks, a request one of whose pages failed (codec error or timeout)
\* ends in an error and returns no document; a document is returned only
\* when every page succeeded, and it holds exactly one watermarked frame per
\* input page, in input order.
C6_AllOrNothing ==
    /\ response.kind \in {"none", "document", "error", "raised"}
    /\ response.kind = "document"
          => /\ \A p \in DOMAIN page_state : page_state[p] = "ok"
             /\ response.pdf = is_pdf
             /\ Len(response.frames) = Len(page_state)
             /\ \A i \in DOMAIN page_state :
                   response.frames[i] = [page |-> i, watermarked |-> TRUE]
    /\ (response.kind # "none" /\ \E k \in 1..consumed : Failed(completed[k]))
          => response.kind \in {"error", "raised"}
    /\ response.kind \in {"error", "raised"}
          => \E p \in DOMAIN page_state : Failed(p)

\* The case of C6: a document of several pages whose tasks did not end in
\* input order.
C6_Witness ==
    /\ response.kind = "document"
    /\ is_pdf
    /\ Len(page_state) >= 2
    /\ completed[1] # 1
    /\ completed[Len(completed)] # Len(page_state)
=============================================================================
